---- MODULE Spec2Model ----
(***************************************************************************)
(* A model of the batch translation pipeline of scripts/trans-local.py:    *)
(* the filename codec, the Chinese-content detector, translate_chunk (the  *)
(* retry loop), translate_text (one file), process_file (one pool task)    *)
(* and the __main__ scheduler (sequential dispatch with the resume guard,  *)
(* a thread pool, interruption).                                            *)
(*                                                                          *)
(* Text is a sequence of characters: filenames are sequences of one-       *)
(* character strings, JSON string values are sequences of code points.     *)
(***************************************************************************)
EXTENDS Integers, Sequences, FiniteSets, TLC

\* ------------------------------------------------------------------ bounds

\* Longest stem (the part before ".json") of a generated filename.
MaxStem == 3
\* Distinct keys a generated JSON object draws from (keys are 1..MaxKeys).
MaxKeys == 2
\* Most entries of a generated JSON object.
MaxEntries == 2
\* Entries of the one large input file (one more than the chunk size of 20).
BigEntries == 21
\* Most input files of one run in the scheduler specification.
MaxFiles == 2
\* Process invocations (runs) against the same directories.
MaxRuns == 2
\* The elapsed time processed_at[4] - started_at[4] of a translated file.
ElapsedSeconds == 1

\* ------------------------------------------------------- program constants

\* translate_chunk(..., max_retries=3)
max_retries == 3
\* time.sleep(2) in the except branch of translate_chunk
RetrySleep == 2
\* The chunk size the specification documents (no code sets it).
DefaultChunkSize == 20
\* re.search(r'[\u4e00-\u9fff]', text): U+4E00 and U+9FFF
CjkFirst == 19968
CjkLast == 40959

\* ------------------------------------------------------------------ text

Min(S) == CHOOSE x \in S : \A y \in S : x <= y

Digits == {"0", "1", "2", "3", "4", "5", "6", "7", "8", "9"}

JsonExt == <<".", "j", "s", "o", "n">>

EndsWith(s, suffix) ==
    /\ Len(suffix) <= Len(s)
    /\ SubSeq(s, Len(s) - Len(suffix) + 1, Len(s)) = suffix

StartsWith(s, prefix) ==
    /\ Len(prefix) <= Len(s)
    /\ SubSeq(s, 1, Len(prefix)) = prefix

AllDigits(s) == \A i \in 1..Len(s) : s[i] \in Digits

\* The end positions "$" accepts: the end of the text, or just before a
\* final newline.
DollarEnds(s) ==
    {Len(s)} \cup (IF Len(s) > 0 /\ s[Len(s)] = "\n" THEN {Len(s) - 1} ELSE {})

\* The prefix lengths i at which ^(.+?)_(\d+)\.json$ matches with
\* group 1 = s[1..i]: "." matches any character but a newline.
MatchSplits(s) ==
    {i \in 1..Len(s) :
        /\ \A j \in 1..i : s[j] # "\n"
        /\ i + 1 <= Len(s) /\ s[i + 1] = "_"
        /\ \E e \in DollarEnds(s) :
              /\ e - Len(JsonExt) >= i + 2
              /\ AllDigits(SubSeq(s, i + 2, e - Len(JsonExt)))
              /\ SubSeq(s, e - Len(JsonExt) + 1, e) = JsonExt}

PatternMatches(s) == MatchSplits(s) # {}

\* group(2) of the match: the lazy group 1 takes the shortest prefix.
MatchNumber(s) ==
    LET i == Min(MatchSplits(s))
        e == CHOOSE e \in DollarEnds(s) :
                /\ e - Len(JsonExt) >= i + 2
                /\ AllDigits(SubSeq(s, i + 2, e - Len(JsonExt)))
                /\ SubSeq(s, e - Len(JsonExt) + 1, e) = JsonExt
    IN  SubSeq(s, i + 2, e - Len(JsonExt))

\* A variant, for comparison: the number follows the run token directly.
replace_filename_pattern_joined(filename, out_prefix) ==
    IF PatternMatches(filename)
    THEN <<"p">> \o out_prefix \o MatchNumber(filename) \o JsonExt
    ELSE filename

replace_filename_pattern(filename, out_prefix) ==
    IF PatternMatches(filename)
    THEN <<"p">> \o out_prefix \o <<"_">> \o MatchNumber(filename) \o JsonExt
    ELSE filename

\* __main__, lines 313-319: the output name of one input file.
OutputName(filename, run_at) ==
    LET new_filename == replace_filename_pattern(filename, run_at)
    IN  IF new_filename = filename
        THEN <<"t">> \o run_at \o <<"_">> \o filename
        ELSE new_filename

contains_chinese(text) ==
    \E i \in 1..Len(text) : text[i] >= CjkFirst /\ text[i] <= CjkLast

\* ------------------------------------------------------------ JSON values

\* A JSON value, and the other things a file or a response can hold, as one
\* record shape: t is the type, s the code points of a string, items the
\* items of a list or the entries [k, v] of an object in insertion order.
JStr(cp) == [t |-> "str", s |-> cp, items |-> <<>>]
JNum == [t |-> "num", s |-> <<>>, items |-> <<>>]
JList(vals) == [t |-> "list", s |-> <<>>, items |-> vals]
JObj(entries) == [t |-> "obj", s |-> <<>>, items |-> entries]
\* Python's None (translate_chunk's failure result).
NoneVal == [t |-> "none", s |-> <<>>, items |-> <<>>]
\* Text that json.loads rejects.
Garbage == [t |-> "garbage", s |-> <<>>, items |-> <<>>]
\* Whitespace-only content, and a path with no file behind it.
EmptyText == [t |-> "empty", s |-> <<>>, items |-> <<>>]
NoFile == [t |-> "absent", s |-> <<>>, items |-> <<>>]
\* A file whose bytes are not UTF-8: reading it raises.
Unreadable == [t |-> "unreadable", s |-> <<>>, items |-> <<>>]
\* A file opened for writing whose json.dump has not finished.
Truncated == [t |-> "truncated", s |-> <<>>, items |-> <<>>]

IsJson(v) == v.t \in {"str", "num", "list", "obj"}

KeysOf(obj) == {obj.items[i].k : i \in 1..Len(obj.items)}

\* Whether any string anywhere in the value holds a CJK ideograph.
RECURSIVE DeepChinese(_)
DeepChinese(v) ==
    CASE v.t = "str" -> contains_chinese(v.s)
      [] v.t = "list" -> \E i \in 1..Len(v.items) : DeepChinese(v.items[i])
      [] v.t = "obj" -> \E i \in 1..Len(v.items) : DeepChinese(v.items[i].v)
      [] OTHER -> FALSE

\* Lone surrogates U+D800..U+DFFF: json.loads accepts their escapes, the
\* UTF-8 encoder of the output file rejects them.
SurrogateFirst == 55296
SurrogateLast == 57343

\* Whether json.dump of the value into the UTF-8 output file raises.
RECURSIVE HasSurrogate(_)
HasSurrogate(v) ==
    CASE v.t = "str" -> \E i \in 1..Len(v.s) :
                           v.s[i] >= SurrogateFirst /\ v.s[i] <= SurrogateLast
      [] v.t = "list" -> \E i \in 1..Len(v.items) : HasSurrogate(v.items[i])
      [] v.t = "obj" -> \E i \in 1..Len(v.items) : HasSurrogate(v.items[i].v)
      [] OTHER -> FALSE

\* Python truthiness of translate_chunk's result: None and {} are falsy.
Falsy(v) == v.t = "none" \/ (v.t \in {"obj", "list"} /\ v.items = <<>>)

StrVi == JStr(<<88, 105, 110>>)
StrZh == JStr(<<20320, 22909>>)
StrEdgeIn == JStr(<<97, CjkLast>>)
StrEdgeOut == JStr(<<CjkFirst - 1, CjkLast + 1>>)
ListZh == JList(<<JStr(<<CjkFirst>>)>>)
StrSurrogate == JStr(<<88, SurrogateFirst>>)

\* Objects of at most n entries with distinct keys from K and values from V.
EntrySeqs(K, V, n) ==
    UNION {{e \in [1..m -> [k : K, v : V]] :
               \A i, j \in 1..m : i # j => e[i].k # e[j].k} : m \in 0..n}

Objects(K, V, n) == {JObj(e) : e \in EntrySeqs(K, V, n)}

Keys == 1..MaxKeys

BigObject == JObj([i \in 1..BigEntries |-> [k |-> i, v |-> StrZh]])

\* ------------------------------------------------------------ responses

\* The streamed text (resp_content) is a sequence of elements: a character,
\* given by its code point, or a whole JSON document (c = 0), whose strings
\* are the only part of it the clean-up can touch.
Ch(cp) == [c |-> cp, v |-> Garbage]
Doc(v) == [c |-> 0, v |-> v]

\* "```json" and "```"
TicksJson == <<96, 96, 96, 106, 115, 111, 110>>
Ticks == <<96, 96, 96>>
Whitespace == {9, 10, 13, 32}

\* str.replace(pat, "") on a sequence of code points: left to right, the
\* occurrences not overlapping.
RECURSIVE ReplaceAll(_, _)
ReplaceAll(s, pat) ==
    IF Len(s) < Len(pat) THEN s
    ELSE IF SubSeq(s, 1, Len(pat)) = pat
         THEN ReplaceAll(SubSeq(s, Len(pat) + 1, Len(s)), pat)
         ELSE <<s[1]>> \o ReplaceAll(Tail(s), pat)

\* The same replacement inside the strings of a JSON document.
RECURSIVE ReplaceInValue(_, _)
ReplaceInValue(v, pat) ==
    CASE v.t = "str" -> JStr(ReplaceAll(v.s, pat))
      [] v.t = "list" ->
            JList([i \in 1..Len(v.items) |-> ReplaceInValue(v.items[i], pat)])
      [] v.t = "obj" ->
            JObj([i \in 1..Len(v.items) |->
                    [k |-> v.items[i].k, v |-> ReplaceInValue(v.items[i].v, pat)]])
      [] OTHER -> v

\* The same replacement on the streamed text.
RECURSIVE ReplaceInText(_, _)
ReplaceInText(text, pat) ==
    IF text = <<>> THEN <<>>
    ELSE IF text[1].c = 0
         THEN <<Doc(ReplaceInValue(text[1].v, pat))>>
                 \o ReplaceInText(Tail(text), pat)
    ELSE IF /\ Len(text) >= Len(pat)
            /\ \A i \in 1..Len(pat) : text[i].c = pat[i]
         THEN ReplaceInText(SubSeq(text, Len(pat) + 1, Len(text)), pat)
         ELSE <<text[1]>> \o ReplaceInText(Tail(text), pat)

\* str.strip()
RECURSIVE Strip(_)
Strip(text) ==
    IF text = <<>> THEN <<>>
    ELSE IF text[1].c \in Whitespace THEN Strip(Tail(text))
    ELSE IF text[Len(text)].c \in Whitespace
         THEN Strip(SubSeq(text, 1, Len(text) - 1))
         ELSE text

\* resp_content.replace("```json", "").replace("```", "").strip()
CleanContent(resp_content) ==
    Strip(ReplaceInText(ReplaceInText(resp_content, TicksJson), Ticks))

\* json.loads: the text must be exactly one JSON document.
JsonLoads(text) ==
    IF Len(text) = 1 /\ text[1].c = 0 /\ IsJson(text[1].v)
    THEN text[1].v
    ELSE Garbage

\* One model response: a transport error (client.chat.completions.create or
\* the stream raises), or the streamed text.
ErrorResp == [kind |-> "error", text |-> <<>>]
TextResp(text) == [kind |-> "text", text |-> text]

Plain(v) == TextResp(<<Doc(v)>>)
Fenced(v) ==
    TextResp([i \in 1..Len(TicksJson) |-> Ch(TicksJson[i])] \o <<Ch(10), Doc(v), Ch(10)>>
                \o [i \in 1..Len(Ticks) |-> Ch(Ticks[i])])
Prose == TextResp(<<Ch(83), Ch(111), Ch(114), Ch(114), Ch(121)>>)

\* A notification through the sink: the level, the message, and the number
\* the message carries (the attempt, or the key of a failed validation).
Note(lvl, msg, n) == [lvl |-> lvl, msg |-> msg, n |-> n]

\* The index of the first entry whose value is a str holding Chinese, or 0.
FirstChineseEntry(obj) ==
    LET bad == {i \in 1..Len(obj.items) :
                   obj.items[i].v.t = "str" /\ contains_chinese(obj.items[i].v.s)}
    IN  IF bad = {} THEN 0 ELSE Min(bad)

\* A variant, for comparison: the wait doubles with every retry.
ExceptBranchDoubling(attempt) ==
    IF attempt < max_retries - 1
    THEN [done |-> FALSE, result |-> NoneVal,
          notes |-> <<Note("warn", "error_retry", attempt + 1)>>,
          sleeps |-> <<RetrySleep * (2 ^ attempt)>>]
    ELSE [done |-> TRUE, result |-> NoneVal,
          notes |-> <<Note("fail", "error_failed", max_retries)>>,
          sleeps |-> <<>>]

\* What one iteration of translate_chunk's loop does with the response:
\* done (the loop returns), result, the notifications and the sleeps.
\* The except branch, lines 141-147.
ExceptBranch(attempt) ==
    IF attempt < max_retries - 1
    THEN [done |-> FALSE, result |-> NoneVal,
          notes |-> <<Note("warn", "error_retry", attempt + 1)>>,
          sleeps |-> <<RetrySleep>>]
    ELSE [done |-> TRUE, result |-> NoneVal,
          notes |-> <<Note("fail", "error_failed", max_retries)>>,
          sleeps |-> <<>>]

DecodeErrorBranch(attempt) ==
    IF attempt < max_retries - 1
    THEN [done |-> FALSE, result |-> NoneVal,
          notes |-> <<Note("warn", "json_retry", attempt + 1)>>,
          sleeps |-> <<>>]
    ELSE [done |-> TRUE, result |-> NoneVal,
          notes |-> <<Note("fail", "json_failed", max_retries)>>,
          sleeps |-> <<>>]

ChineseBranch(attempt, key) ==
    IF attempt < max_retries - 1
    THEN [done |-> FALSE, result |-> NoneVal,
          notes |-> <<Note("warn", "validation_failed", key),
                      Note("warn", "chinese_retry", attempt + 1)>>,
          sleeps |-> <<>>]
    ELSE [done |-> TRUE, result |-> NoneVal,
          notes |-> <<Note("warn", "validation_failed", key),
                      Note("fail", "chinese_failed", max_retries)>>,
          sleeps |-> <<>>]

ChunkAttempt(attempt, resp) ==
    IF resp.kind = "error" THEN ExceptBranch(attempt)
    ELSE LET translated_chunk == JsonLoads(CleanContent(resp.text))
         IN  IF ~IsJson(translated_chunk) THEN DecodeErrorBranch(attempt)
             ELSE IF translated_chunk.t # "obj" THEN ExceptBranch(attempt)
             ELSE LET i == FirstChineseEntry(translated_chunk)
                  IN  IF i # 0
                      THEN ChineseBranch(attempt, translated_chunk.items[i].k)
                      ELSE [done |-> TRUE, result |-> translated_chunk,
                            notes |-> <<>>, sleeps |-> <<>>]

\* ------------------------------------------------------------ file names

\* Code point order of the characters filenames are made of (sorted()).
CharOrder == <<"\n", ".", "0", "1", "2", "3", "4", "5", "6", "7", "8", "9",
               "_", "a", "b", "e", "j", "n", "o", "p", "s", "t", "x">>

Ord(c) == CHOOSE i \in 1..Len(CharOrder) : CharOrder[i] = c

RECURSIVE LexLeq(_, _)
LexLeq(a, b) ==
    IF a = <<>> THEN TRUE
    ELSE IF b = <<>> THEN FALSE
    ELSE IF a[1] = b[1] THEN LexLeq(Tail(a), Tail(b))
    ELSE Ord(a[1]) < Ord(b[1])

\* sorted(names)
RECURSIVE Sorted(_)
Sorted(S) ==
    IF S = {} THEN <<>>
    ELSE LET m == CHOOSE x \in S : \A y \in S : LexLeq(x, y)
         IN  <<m>> \o Sorted(S \ {m})

\* A variant, for comparison: hidden files are not left out.
EligibleWithHidden(f) == EndsWith(f, JsonExt)

\* f.endswith(".json") and not f.startswith("._")
Eligible(f) == EndsWith(f, JsonExt) /\ ~StartsWith(f, <<".", "_">>)

\* Run tokens: %y %V %u %H %M of two minutes.
TokenA == <<"2", "6", "4", "5", "4", "0", "7", "2", "5">>
TokenB == <<"2", "6", "4", "5", "4", "0", "7", "2", "6">>
Tokens == {TokenA, TokenB}

\* A function with one more (or one changed) entry.
Put(f, k, v) == [x \in DOMAIN f \cup {k} |-> IF x = k THEN v ELSE f[x]]
NoFiles == [x \in {} |-> NoFile]

\* ------------------------------------------------------------------ state

VARIABLES
    hasKey,        \* OR_API_KEY is set
    inDirExists,   \* the source folder exists
    inDir,         \* the source folder: name -> content
    outDirExists,  \* the output folder exists
    outFiles,      \* the output folder: name -> content
    workerCount,   \* WORKER_COUNT
    scenario,      \* which inputs and responses this exploration draws from
    run,           \* the number of this process invocation
    prev,          \* what the previous invocation left: how it ended, its
                   \* run token, the inputs whose output it wrote, and
                   \* those whose output it opened and did not finish
    mainPc,        \* where the main thread is
    runAt,         \* run_at
    json_files,    \* json_files
    idx,           \* files the dispatch loop has gone through
    tasks,         \* the tasks submitted to the pool, in order
    mainLog,       \* notifications of the main thread's spinner
    cleanLog       \* what the last run of clean-failed-translations.py
                   \* reported: after which invocation it ran, the files
                   \* it deleted, its deleted count, the files it failed on

vars == <<hasKey, inDirExists, inDir, outDirExists, outFiles, workerCount,
          scenario, run, prev, mainPc, runAt, json_files, idx, tasks, mainLog,
          cleanLog>>

config == <<hasKey, inDirExists, inDir, workerCount, scenario>>

MainNote(lvl, msg, n, file, as) ==
    [lvl |-> lvl, msg |-> msg, n |-> n, file |-> file, as |-> as]

\* What the response is, in the terms the claims use (recorded per attempt
\* in a task's hist; no code reads it).
RespClass(resp) ==
    IF resp.kind = "error" THEN "error"
    ELSE LET v == JsonLoads(CleanContent(resp.text))
         IN  IF ~IsJson(v) THEN "nonjson"
             ELSE IF v.t # "obj"
                  THEN (IF DeepChinese(v) THEN "nonobject_zh" ELSE "nonobject")
             ELSE IF FirstChineseEntry(v) # 0 THEN "chinese"
             ELSE IF v.items = <<>> THEN "empty"
             ELSE IF DeepChinese(v) THEN "nested"
             ELSE "clean"

NewTask(i, filename, output_file) ==
    [idx |-> i, filename |-> filename, output |-> output_file, pc |-> "queued",
     attempt |-> 0, data |-> NoneVal, sent |-> <<>>, hist |-> <<>>,
     answer |-> ErrorResp, result |-> NoneVal, translated |-> NoneVal,
     sleeps |-> <<>>, log |-> <<>>, ret |-> -2]

Running(i) == tasks[i].pc \in {"chunk", "merge", "writing"}

\* A variant, for comparison: the workers outlive the interruption.
AliveAfterInterrupt == mainPc \in {"dispatch", "interrupted"}

\* The process is alive and its pool runs tasks.
Alive == mainPc = "dispatch"

\* The status the process ends with: sys.exit(1), sys.exit(0), os._exit(1),
\* the end of the script, or an uncaught exception.
ExitStatus(pc) ==
    CASE pc = "exit1" -> 1
      [] pc = "exit0" -> 0
      [] pc = "interrupted" -> 1
      [] pc = "crashed" -> 1
      [] pc = "done" -> 0
      [] OTHER -> -1

\* ------------------------------------------------------------ samples

NameA1 == <<"a", "_", "1">> \o JsonExt
NameB1 == <<"b", "_", "1">> \o JsonExt
NameA2 == <<"a", "_", "2">> \o JsonExt
NameX == <<"x">> \o JsonExt
NameHidden == <<".", "_", "a", "_", "1">> \o JsonExt
NameText == <<"a", ".", "t", "x", "t">>
\* An output of an earlier run, as a name in the source folder.
NameOut7(token) == <<"p">> \o token \o <<"_", "7">> \o JsonExt

StrTicks == JStr(Ticks \o <<88>>)
SmallZh == JObj(<<[k |-> 1, v |-> StrZh]>>)
SmallVi == JObj(<<[k |-> 1, v |-> StrVi]>>)
SmallSurrogate == JObj(<<[k |-> 1, v |-> StrSurrogate]>>)

Dir(names, content) == [n \in names |-> content]

FileValues == {StrVi, StrZh}

FileResponses ==
    {ErrorResp, Prose, TextResp(<<>>), Plain(JNum), Plain(StrVi), Plain(JList(<<>>)),
     Fenced(SmallVi), Fenced(SmallZh),
     Plain(JObj(<<[k |-> 1, v |-> ListZh]>>)),
     Plain(JObj(<<[k |-> 1, v |-> StrTicks]>>)),
     Plain(JObj(<<[k |-> 1, v |-> StrEdgeIn]>>)),
     Plain(JObj(<<[k |-> 1, v |-> StrEdgeOut]>>))}
    \cup {Plain(o) : o \in Objects(Keys, FileValues, MaxEntries)}


\* The responses the remote model may give.
Responses ==
    CASE scenario = "file" -> FileResponses
      [] scenario = "codec" -> {Plain(SmallVi)}
      [] scenario = "iso" -> {Plain(SmallVi), ErrorResp, Plain(SmallSurrogate)}
      [] OTHER -> {Plain(SmallVi), ErrorResp}

\* ------------------------------------------------------------ the scheduler

\* Module level and __main__ up to the pool: the credential, the source
\* folder, the listing, the run token.
Startup ==
    /\ mainPc = "start"
    /\ IF ~hasKey
       THEN /\ mainPc' = "exit1"
            /\ mainLog' = Append(mainLog, MainNote("print", "no_api_key", 0, <<>>, <<>>))
            /\ UNCHANGED <<runAt, json_files>>
       ELSE IF ~inDirExists
       THEN /\ mainPc' = "exit1"
            /\ mainLog' = Append(mainLog, MainNote("fail", "no_source_folder", 0, <<>>, <<>>))
            /\ UNCHANGED <<runAt, json_files>>
       ELSE LET files == Sorted(DOMAIN inDir)
                eligible == SelectSeq(files, Eligible)
            IN  IF eligible = <<>>
                THEN /\ mainPc' = "exit0"
                     /\ mainLog' = Append(mainLog, MainNote("warn", "no_json_files", 0, <<>>, <<>>))
                     /\ json_files' = eligible
                     /\ UNCHANGED runAt
                ELSE /\ mainPc' = "dispatch"
                     /\ json_files' = eligible
                     /\ \E token \in Tokens : runAt' = token
                     /\ UNCHANGED mainLog
    /\ UNCHANGED <<config, cleanLog, outDirExists, outFiles, run, prev, idx, tasks>>

\* A variant, for comparison: the guard looks for the whole filename only.
GuardSuffixWhole(filename) == <<"_">> \o filename

\* The suffix the resume guard looks for: _<id>.json, or _<filename>.
GuardSuffix(filename) ==
    IF PatternMatches(filename)
    THEN <<"_">> \o MatchNumber(filename) \o JsonExt
    ELSE <<"_">> \o filename

\* A variant, for comparison: a file a writer left unfinished does not count.
ExistingFilesComplete(filename) ==
    {f \in DOMAIN outFiles : /\ EndsWith(f, GuardSuffix(filename))
                              /\ outFiles[f] # Truncated}

\* existing_files, lines 331 and 340
ExistingFiles(filename) ==
    {f \in DOMAIN outFiles : EndsWith(f, GuardSuffix(filename))}

\* One iteration of the dispatch loop, lines 312-345.
Dispatch ==
    /\ mainPc = "dispatch"
    /\ idx < Len(json_files)
    /\ LET filename == json_files[idx + 1]
           output_file == OutputName(filename, runAt)
       IN  IF ~outDirExists
           THEN \* os.listdir raises FileNotFoundError, which nothing catches
                /\ mainPc' = "crashed"
                /\ UNCHANGED <<idx, tasks, mainLog>>
           ELSE IF ExistingFiles(filename) # {}
           THEN /\ \E e \in ExistingFiles(filename) :
                      mainLog' = Append(mainLog,
                                    MainNote("info", "skipping", idx + 1, filename, e))
                /\ idx' = idx + 1
                /\ UNCHANGED <<mainPc, tasks>>
           ELSE /\ tasks' = Append(tasks, NewTask(idx, filename, output_file))
                /\ idx' = idx + 1
                /\ UNCHANGED <<mainPc, mainLog>>
    /\ UNCHANGED <<config, cleanLog, outDirExists, outFiles, run, prev, runAt, json_files>>

\* A variant, for comparison: the notification does not wait for the tasks.
CompleteWithoutWaiting ==
    /\ mainPc = "dispatch"
    /\ idx = Len(json_files)
    /\ mainPc' = "done"
    /\ mainLog' = Append(mainLog, MainNote("succeed", "all_tasks_completed", 0, <<>>, <<>>))
    /\ UNCHANGED <<config, cleanLog, outDirExists, outFiles, run, prev, runAt, json_files,
                   idx, tasks>>

\* as_completed has yielded every future: lines 348-351.
Complete ==
    /\ mainPc = "dispatch"
    /\ idx = Len(json_files)
    /\ \A i \in 1..Len(tasks) : tasks[i].pc \in {"done", "raised"}
    /\ mainPc' = "done"
    /\ mainLog' = Append(mainLog, MainNote("succeed", "all_tasks_completed", 0, <<>>, <<>>))
    /\ UNCHANGED <<config, cleanLog, outDirExists, outFiles, run, prev, runAt, json_files,
                   idx, tasks>>

\* KeyboardInterrupt inside the try block: lines 353-357.
Interrupt ==
    /\ mainPc = "dispatch"
    /\ mainPc' = "interrupted"
    /\ mainLog' = Append(mainLog, MainNote("fail", "user_interrupted", 0, <<>>, <<>>))
    /\ UNCHANGED <<config, cleanLog, outDirExists, outFiles, run, prev, runAt, json_files,
                   idx, tasks>>

\* The inputs whose output file this invocation wrote to the end.
Written == {tasks[i].filename : i \in {j \in 1..Len(tasks) :
                tasks[j].pc = "done" /\ tasks[j].translated # NoneVal}}

\* The inputs whose output file this invocation opened and did not finish.
Partial == {tasks[i].filename : i \in {j \in 1..Len(tasks) : tasks[j].pc = "writing"}}

\* The operator starts the script again on the same folders.
NextRun ==
    /\ mainPc \in {"done", "interrupted", "crashed", "exit0", "exit1"}
    /\ run < MaxRuns
    /\ run' = run + 1
    /\ prev' = [ended |-> mainPc, runAt |-> runAt, outputs |-> Written,
                partial |-> Partial]
    /\ mainPc' = "start"
    /\ runAt' = <<>>
    /\ json_files' = <<>>
    /\ idx' = 0
    /\ tasks' = <<>>
    /\ mainLog' = <<>>
    /\ UNCHANGED <<config, cleanLog, outDirExists, outFiles>>

\* ------------------------------------------- clean-failed-translations.py

NotCleaned == [run |-> 0, deleted |-> {}, count |-> 0, errors |-> {}]

\* should_delete for a file that was read: the content is not JSON, or it
\* is an object or a list with a top-level string holding a CJK ideograph.
should_delete(content) ==
    IF ~IsJson(content) THEN TRUE
    ELSE IF content.t = "obj"
         THEN \E i \in 1..Len(content.items) :
                 /\ content.items[i].v.t = "str"
                 /\ contains_chinese(content.items[i].v.s)
    ELSE IF content.t = "list"
         THEN \E i \in 1..Len(content.items) :
                 /\ content.items[i].t = "str"
                 /\ contains_chinese(content.items[i].s)
    ELSE FALSE

\* clean_failed_translations(output folder), run by the operator between
\* two invocations of the translator. Reading a file whose bytes are not
\* UTF-8 raises, and so may a file the writer left cut inside a multi-byte
\* character; the except branch reports the file and goes on.
Clean ==
    /\ mainPc \in {"done", "interrupted"}
    /\ cleanLog.run # run
    /\ IF ~outDirExists
       THEN /\ cleanLog' = [NotCleaned EXCEPT !.run = run]
            /\ UNCHANGED outFiles
       ELSE LET files == {f \in DOMAIN outFiles : EndsWith(f, JsonExt)}
                cut == {f \in files : outFiles[f] = Truncated}
            IN  \E undecodable \in SUBSET cut :
                   LET raised == undecodable
                                   \cup {f \in files : outFiles[f] = Unreadable}
                       deleted == {f \in files \ raised : should_delete(outFiles[f])}
                   IN  /\ outFiles' = [f \in DOMAIN outFiles \ deleted |-> outFiles[f]]
                       /\ cleanLog' = [run |-> run, deleted |-> deleted,
                                       count |-> Cardinality(deleted),
                                       errors |-> raised]
    /\ UNCHANGED <<config, outDirExists, run, prev, mainPc, runAt, json_files,
                   idx, tasks, mainLog>>

\* ------------------------------------------------------------ a pool task

\* A variant, for comparison: only a positive time is reported as a success.
ReportPositiveOnly(processed_time) ==
    IF processed_time > 0 THEN "ok" ELSE "failed"

\* What process_file prints for translate_text's return value (line 236).
Report(processed_time) == IF processed_time # -1 THEN "ok" ELSE "failed"

SetTask(i, t) == tasks' = [tasks EXCEPT ![i] = t]

\* A free worker takes the oldest queued task: process_file starts, and
\* translate_text runs up to the first model request (lines 150-198).
Begin(i) ==
    /\ Alive
    /\ tasks[i].pc = "queued"
    /\ \A j \in 1..(i - 1) : tasks[j].pc # "queued"
    /\ Cardinality({j \in 1..Len(tasks) : Running(j)}) < workerCount
    /\ LET t == tasks[i]
           content == inDir[t.filename]
           started == <<Note("print", "translating", t.idx + 1)>>
       IN  IF content = NoFile
           THEN /\ SetTask(i, [t EXCEPT !.pc = "done", !.ret = -1,
                       !.log = started \o <<Note("fail", "input_missing", 0),
                                             Note("print", Report(-1), t.idx + 1)>>])
                /\ UNCHANGED outDirExists
           ELSE IF content = EmptyText
           THEN /\ SetTask(i, [t EXCEPT !.pc = "done", !.ret = 0,
                       !.log = started \o <<Note("warn", "input_empty", 0),
                                             Note("print", Report(0), t.idx + 1)>>])
                /\ UNCHANGED outDirExists
           ELSE IF content = Unreadable
           THEN /\ SetTask(i, [t EXCEPT !.pc = "done", !.ret = -1,
                       !.log = started \o <<Note("fail", "read_error", 0),
                                             Note("print", Report(-1), t.idx + 1)>>])
                /\ UNCHANGED outDirExists
           ELSE IF ~IsJson(content)
           THEN /\ SetTask(i, [t EXCEPT !.pc = "done", !.ret = -1,
                       !.log = started \o <<Note("fail", "input_invalid_json", 0),
                                             Note("print", Report(-1), t.idx + 1)>>])
                /\ UNCHANGED outDirExists
           ELSE /\ SetTask(i, [t EXCEPT !.pc = "chunk", !.data = content,
                                        !.log = started])
                /\ outDirExists' = TRUE
    /\ UNCHANGED <<config, cleanLog, outFiles, run, prev, mainPc, runAt, json_files, idx,
                   mainLog>>

\* A variant, for comparison: the entries are sent in consecutive chunks of the documented size.
ChunksOfSplit(data) ==
    IF data.t # "obj" THEN <<data>>
    ELSE [c \in 1..((Len(data.items) + DefaultChunkSize - 1) \div DefaultChunkSize) |->
            JObj(SubSeq(data.items, (c - 1) * DefaultChunkSize + 1,
                        IF c * DefaultChunkSize < Len(data.items)
                        THEN c * DefaultChunkSize ELSE Len(data.items)))]
            \o (IF data.items = <<>> THEN <<data>> ELSE <<>>)

\* The payloads translate_text hands to translate_chunk: the whole file.
ChunksOf(data) == <<data>>

\* A variant, for comparison: the loop gives up one attempt early.
AttemptOutcomeShort(attempt, resp) ==
    LET o == ChunkAttempt(attempt, resp)
    IN  IF ~o.done /\ attempt >= max_retries - 2
        THEN [o EXCEPT !.done = TRUE]
        ELSE o

\* translate_chunk's loop body, as the task runs it.
AttemptOutcome(attempt, resp) == ChunkAttempt(attempt, resp)

\* One iteration of translate_chunk's loop: one model request (lines 72-147).
Attempt(i) ==
    /\ Alive
    /\ tasks[i].pc = "chunk"
    /\ \E resp \in Responses :
          LET t == tasks[i]
              o == AttemptOutcome(t.attempt, resp)
          IN  SetTask(i, [t EXCEPT
                  !.sent = Append(@, ChunksOf(t.data)[1]),
                  !.hist = Append(@, RespClass(resp)),
                  !.answer = IF o.done THEN resp ELSE @,
                  !.log = @ \o o.notes,
                  !.sleeps = @ \o o.sleeps,
                  !.attempt = IF o.done THEN @ ELSE @ + 1,
                  !.result = o.result,
                  !.pc = IF o.done THEN "merge" ELSE "chunk"])
    /\ UNCHANGED <<config, cleanLog, outDirExists, outFiles, run, prev, mainPc, runAt,
                   json_files, idx, mainLog>>

\* A variant, for comparison: a failed translation leaves the failed result in place.
MergedNoFallback(result, data) == result

\* translated_data after lines 201-203.
Merged(result, data) == IF Falsy(result) THEN data ELSE result

\* Lines 201-208: the fallback, and the output file opened for writing.
Merge(i) ==
    /\ Alive
    /\ tasks[i].pc = "merge"
    /\ LET t == tasks[i]
       IN  /\ SetTask(i, [t EXCEPT
                  !.translated = Merged(t.result, t.data),
                  !.log = IF Falsy(t.result)
                          THEN Append(@, Note("warn", "keeping_original", 0))
                          ELSE @,
                  !.pc = "writing"])
           /\ outFiles' = Put(outFiles, t.output, Truncated)
    /\ UNCHANGED <<config, cleanLog, outDirExists, run, prev, mainPc, runAt, json_files,
                   idx, mainLog>>


\* Line 209 to the end of process_file: json.dump completes, translate_text
\* returns the elapsed time and process_file reports; or the write raises
\* (a string the file's encoding rejects), the file stays as far as it was
\* written and the exception ends the task inside its future.
FinishWrite(i) ==
    /\ Alive
    /\ tasks[i].pc = "writing"
    /\ LET t == tasks[i]
       IN  IF HasSurrogate(t.translated)
           THEN /\ SetTask(i, [t EXCEPT !.pc = "raised"])
                /\ UNCHANGED outFiles
           ELSE /\ SetTask(i, [t EXCEPT !.pc = "done", !.ret = ElapsedSeconds,
                              !.log = Append(@, Note("print", Report(ElapsedSeconds), t.idx + 1))])
                /\ outFiles' = Put(outFiles, t.output, t.translated)
    /\ UNCHANGED <<config, cleanLog, outDirExists, run, prev, mainPc, runAt, json_files,
                   idx, mainLog>>

Next ==
    \/ Startup
    \/ Dispatch
    \/ Complete
    \/ Interrupt
    \/ NextRun
    \/ \E i \in 1..Len(tasks) : Begin(i)
    \/ \E i \in 1..Len(tasks) : Attempt(i)
    \/ \E i \in 1..Len(tasks) : Merge(i)
    \/ \E i \in 1..Len(tasks) : FinishWrite(i)

\* ------------------------------------------------------- initial states

InitCommon ==
    /\ run = 1
    /\ prev = [ended |-> "none", runAt |-> <<>>, outputs |-> {}, partial |-> {}]
    /\ mainPc = "start"
    /\ runAt = <<>>
    /\ json_files = <<>>
    /\ idx = 0
    /\ tasks = <<>>
    /\ mainLog = <<>>
    /\ cleanLog = NotCleaned

FileContents ==
    {JObj(<<>>), SmallZh, SmallVi,
     JObj(<<[k |-> 1, v |-> StrZh], [k |-> 2, v |-> StrZh]>>),
     JObj(<<[k |-> 2, v |-> StrZh], [k |-> 1, v |-> StrVi]>>),
     BigObject, NoFile, EmptyText, Garbage, JList(<<StrZh>>)}

\* One file, with every content and every response the claims speak of.
Init ==
    /\ InitCommon
    /\ hasKey \in BOOLEAN
    /\ inDirExists \in BOOLEAN
    /\ inDir \in {Dir({NameA1, NameText}, c) : c \in FileContents}
                    \cup {Dir({NameHidden, NameText}, SmallZh)}
    /\ outDirExists \in BOOLEAN
    /\ outFiles = NoFiles
    /\ workerCount = 1
    /\ scenario = "file"

Spec == Init /\ [][Next]_vars

\* One file, with every filename up to the bound.
StemChars == {"a", "_", "0", "1", "."}

Stems == UNION {[1..n -> StemChars] : n \in 1..MaxStem}

CodecNames ==
    {n \in {stem \o JsonExt : stem \in Stems} : Eligible(n)}
    \cup {NameOut7(token) : token \in Tokens}

InitCodec ==
    /\ InitCommon
    /\ hasKey = TRUE
    /\ inDirExists = TRUE
    /\ inDir \in {Dir({n}, SmallZh) : n \in CodecNames}
    /\ outDirExists = TRUE
    /\ outFiles = NoFiles
    /\ workerCount = 1
    /\ scenario = "codec"

SpecCodec == InitCodec /\ [][Next]_vars

\* Several files, workers and earlier outputs.
SchedNames == {NameA1, NameB1, NameA2, NameX, <<"_", "1">> \o JsonExt}

SchedContent(n) == IF n = NameX THEN EmptyText ELSE SmallZh

SchedDirs ==
    {[n \in names |-> SchedContent(n)] :
        names \in {S \in SUBSET SchedNames : Cardinality(S) \in 1..MaxFiles}}

InitSched ==
    /\ InitCommon
    /\ hasKey = TRUE
    /\ inDirExists = TRUE
    /\ inDir \in SchedDirs
    /\ \/ outDirExists = FALSE /\ outFiles = NoFiles
       \/ outDirExists = TRUE /\ outFiles = NoFiles
       \/ outDirExists = TRUE
          /\ outFiles = Dir({<<"p">> \o TokenA \o <<"_", "1">> \o JsonExt}, SmallVi)
    /\ workerCount \in 1..2
    /\ scenario = "sched"

SpecSched == InitSched /\ [][Next]_vars

\* The same runs under the scheduling the claims on progress assume: the
\* main thread goes on, every request returns or raises, and a worker with
\* a task to run runs it. The operator's interruption stays a possibility.
Fairness ==
    /\ WF_vars(Startup)
    /\ WF_vars(Dispatch)
    /\ WF_vars(Complete)
    /\ \A i \in 1..MaxFiles :
          WF_vars(/\ i \in 1..Len(tasks)
                  /\ (Begin(i) \/ Attempt(i) \/ Merge(i) \/ FinishWrite(i)))

InitProgress ==
    /\ InitCommon
    /\ hasKey = TRUE
    /\ inDirExists = TRUE
    /\ inDir \in {[n \in names |-> SchedContent(n)] :
                    names \in {{NameA1}, {NameA1, NameA2}, {NameA1, NameX}}}
    /\ outDirExists \in BOOLEAN
    /\ outFiles = NoFiles
    /\ workerCount \in 1..2
    /\ scenario = "sched"

SpecProgress == InitProgress /\ [][Next]_vars /\ Fairness

\* Two files, the first with every kind of failure, the second sound.
IsoFirst == {NoFile, EmptyText, Garbage, Unreadable, SmallZh}

IsoDirs ==
    {[n \in {NameA1, other} |-> IF n = NameA1 THEN c ELSE SmallZh] :
        other \in {NameA2, NameB1}, c \in IsoFirst}

InitIso ==
    /\ InitCommon
    /\ hasKey = TRUE
    /\ inDirExists = TRUE
    /\ inDir \in IsoDirs
    /\ outDirExists = TRUE
    /\ outFiles = NoFiles
    /\ workerCount \in 1..2
    /\ scenario = "iso"

SpecIso == InitIso /\ [][Next]_vars

\* The translator and, between its invocations, the cleanup tool.
NextWithCleanup == Next \/ Clean

NameUnder1 == <<"_", "1">> \o JsonExt

\* What the output folder may hold beside the translator's outputs.
StrayContents ==
    {SmallVi, SmallZh, JObj(<<[k |-> 1, v |-> ListZh]>>), JList(<<StrZh>>),
     JList(<<StrVi>>), StrZh, JNum, Garbage, EmptyText, Truncated, Unreadable}

InitClean ==
    /\ InitCommon
    /\ hasKey = TRUE
    /\ inDirExists = TRUE
    /\ inDir \in {[n \in names |-> SmallZh] :
                    names \in {{NameA1, NameA2}, {NameA1, NameUnder1}}}
    /\ outDirExists = TRUE
    /\ outFiles \in {(NameX :> c) @@ (NameText :> SmallZh) : c \in StrayContents}
    /\ workerCount = 1
    /\ scenario = "sched"

SpecClean == InitClean /\ [][NextWithCleanup]_vars

\* ------------------------------------------------------------ trans-vi.py

\* The sequential runner works on the same folders with the same codec; its
\* main thread is the only thread. json_files holds its listing (files),
\* every name of the source folder in the order os.listdir gave.

Listings(names) ==
    {l \in [1..Cardinality(names) -> names] :
        \A i, j \in 1..Cardinality(names) : i # j => l[i] # l[j]}

\* What a request of the sequential runner comes to: create() raises, the
\* stream raises, or the text arrives.
ViOutcomes == {"network_error", "streaming_error", "text"}

\* The text written: the response from its first "{" to its last "}".
ViExtract(resp) ==
    LET objs == {n \in 1..Len(resp.text) :
                    resp.text[n].c = 0 /\ resp.text[n].v.t = "obj"}
    IN  IF Cardinality(objs) = 1 THEN resp.text[Min(objs)].v
        ELSE IF Len(resp.text) = 1 /\ resp.text[1].c = 0 THEN resp.text[1].v
        ELSE Garbage

\* Lines 117-134: the listing and the run token.
ViStart ==
    /\ mainPc = "start"
    /\ IF ~inDirExists
       THEN /\ mainPc' = "crashed"
            /\ UNCHANGED <<runAt, json_files>>
       ELSE /\ mainPc' = "loop"
            /\ \E l \in Listings(DOMAIN inDir) : json_files' = l
            /\ \E token \in Tokens : runAt' = token
    /\ UNCHANGED <<config, cleanLog, outDirExists, outFiles, run, prev, idx,
                   tasks, mainLog>>

\* Python's None as translate_text's return value (a bare return), among
\* the numbers it returns otherwise.
ViNone == -2

\* Line 152: f"{processed_time:.2f}" raises for None.
ViCanReport(processed_time) == processed_time # ViNone

\* One turn of the loop, lines 136-153: translate_text and the completion
\* line; formatting the time of a file translate_text returned None for
\* raises, and nothing catches it.
ViStep ==
    /\ mainPc = "loop"
    /\ idx < Len(json_files)
    /\ LET filename == json_files[idx + 1]
           output_file == OutputName(filename, runAt)
           content == inDir[filename]
           begun == Append(mainLog, MainNote("info", "translating", idx + 1,
                                             filename, <<>>))
           Ended(log, processed_time) ==
               IF ViCanReport(processed_time)
               THEN /\ mainLog' = Append(log, MainNote("info", "completed", idx + 1,
                                                       filename, <<>>))
                    /\ mainPc' = "loop" /\ idx' = idx + 1
               ELSE /\ mainLog' = log
                    /\ mainPc' = "crashed" /\ idx' = idx
       IN  IF ~EndsWith(filename, JsonExt)
           THEN /\ idx' = idx + 1
                /\ UNCHANGED <<mainPc, mainLog, outDirExists, outFiles>>
           ELSE IF content = NoFile
           THEN /\ Ended(Append(begun, MainNote("print", "input_missing", 0,
                                                 filename, <<>>)), ViNone)
                /\ UNCHANGED <<outDirExists, outFiles>>
           ELSE IF content = Unreadable
           THEN /\ mainLog' = begun /\ mainPc' = "crashed" /\ idx' = idx
                /\ UNCHANGED <<outDirExists, outFiles>>
           ELSE IF content = EmptyText
           THEN /\ Ended(Append(begun, MainNote("print", "input_empty", 0,
                                                 filename, <<>>)), ViNone)
                /\ UNCHANGED <<outDirExists, outFiles>>
           ELSE /\ outDirExists' = TRUE
                /\ \E outcome \in ViOutcomes :
                      IF outcome = "text"
                      THEN \E resp \in Responses \ {ErrorResp} :
                              /\ outFiles' = Put(outFiles, output_file, ViExtract(resp))
                              /\ Ended(begun, ElapsedSeconds)
                      ELSE /\ Ended(Append(begun, MainNote("fail", outcome, 0,
                                                           filename, <<>>)), -1)
                           /\ UNCHANGED outFiles
    /\ UNCHANGED <<config, cleanLog, run, prev, runAt, json_files, tasks>>

\* The loop is through: the script ends.
ViEnd ==
    /\ mainPc = "loop"
    /\ idx = Len(json_files)
    /\ mainPc' = "done"
    /\ UNCHANGED <<config, cleanLog, outDirExists, outFiles, run, prev, runAt,
                   json_files, idx, tasks, mainLog>>

NextVi == ViStart \/ ViStep \/ ViEnd

ViContents == {SmallZh, NoFile, EmptyText, Unreadable}

InitVi ==
    /\ InitCommon
    /\ hasKey = TRUE
    /\ inDirExists \in BOOLEAN
    /\ inDir \in UNION {[names -> ViContents] :
                    names \in {S \in SUBSET {NameA1, NameA2, NameX, NameText} :
                                 Cardinality(S) \in 1..MaxFiles}}
    /\ outDirExists \in BOOLEAN
    /\ outFiles = NoFiles
    /\ workerCount = 1
    /\ scenario = "sched"

SpecVi == InitVi /\ [][NextVi]_vars

\* ------------------------------------------------------------------ claims

TaskIds == 1..Len(tasks)

\* translate_chunk has returned for the task.
Returned(t) == t.pc \in {"merge", "writing", "done", "raised"} /\ t.hist # <<>>

\* translate_text has written the task's output file to the end.
Wrote(t) == t.pc = "done" /\ t.translated # NoneVal

OutputOf(t) == IF t.output \in DOMAIN outFiles THEN outFiles[t.output] ELSE NoFile

\* The classes of responses translate_chunk's own validation step accepts.
Accepted == {"clean", "nested", "empty"}

RetryNotes(t) ==
    {n \in 1..Len(t.log) : t.log[n].msg \in {"json_retry", "chinese_retry", "error_retry"}}

FailureNotes(t) == {n \in 1..Len(t.log) : t.log[n].lvl = "fail"}

\* The JSON document of a response as the model sent it, fences aside.
RawDocument(resp) ==
    LET docs == {n \in 1..Len(resp.text) : resp.text[n].c = 0}
    IN  IF docs = {} THEN Garbage ELSE resp.text[Min(docs)].v

\* C1: the output file written for a JSON object with key set K has key set
\* exactly K, whatever the model answered.
C1_KeySetPreserved ==
    \A i \in TaskIds :
        (Wrote(tasks[i]) /\ tasks[i].data.t = "obj")
            => /\ OutputOf(tasks[i]).t = "obj"
               /\ KeysOf(OutputOf(tasks[i])) = KeysOf(tasks[i].data)

\* C2: when translate_chunk returned None, translate_text still writes the
\* output file and the file holds the original data exactly.
C2_FallbackKeepsOriginal ==
    \A i \in TaskIds :
        (Returned(tasks[i]) /\ tasks[i].result = NoneVal)
            => /\ tasks[i].pc # "merge" => tasks[i].output \in DOMAIN outFiles
               /\ tasks[i].pc = "done"
                     => /\ tasks[i].translated = tasks[i].data
                        /\ OutputOf(tasks[i]) = tasks[i].data

C2_Witness ==
    \E i \in TaskIds :
        /\ tasks[i].pc = "done"
        /\ tasks[i].hist = <<"nonjson", "chinese", "error">>
        /\ tasks[i].result = NoneVal
        /\ tasks[i].data = SmallZh
        /\ OutputOf(tasks[i]) = SmallZh

\* C3: a mapping translate_chunk returns holds no CJK ideograph in any
\* value, nested values included.
C3_NoChineseInResult ==
    \A i \in TaskIds :
        (Returned(tasks[i]) /\ tasks[i].result # NoneVal)
            => ~DeepChinese(tasks[i].result)

\* C4: translate_chunk makes at most max_retries requests, each with the
\* same payload; it stops at the first response its parse and validation
\* steps accept and returns that mapping; it returns None exactly when all
\* max_retries responses were rejected.
C4_RetryCap ==
    \A i \in TaskIds :
        LET t == tasks[i]
            n == Len(t.hist)
        IN  /\ Len(t.sent) = n /\ n <= max_retries
            /\ \A j \in 1..n : t.sent[j] = t.data
            /\ \A j \in 1..n : t.hist[j] \in Accepted => (j = n /\ Returned(t))
            /\ t.pc = "chunk" => n < max_retries
            /\ Returned(t) =>
                  /\ t.hist[n] \in Accepted
                        => /\ t.result # NoneVal
                           /\ t.result = JsonLoads(CleanContent(t.answer.text))
                  /\ t.result = NoneVal
                        <=> (n = max_retries /\ \A j \in 1..n : t.hist[j] \notin Accepted)

C4_Witness ==
    \E i \in TaskIds :
        /\ tasks[i].pc = "done"
        /\ tasks[i].hist = <<"error", "chinese", "clean">>
        /\ tasks[i].result = SmallVi

\* C5: when attempts 1..k-1 return text that is not JSON and attempt k
\* returns valid JSON free of Chinese, the written output is attempt k's
\* content, exactly k-1 retry notifications were emitted and no failure
\* notification.
C5_MalformedThenSuccess ==
    \A i \in TaskIds : \A k \in 1..Len(tasks[i].hist) :
        LET t == tasks[i]
        IN  (/\ t.pc = "done"
             /\ \A j \in 1..(k - 1) : t.hist[j] = "nonjson"
             /\ t.hist[k] \in {"clean", "empty", "nonobject"})
                => /\ k = Len(t.hist)
                   /\ OutputOf(t) = RawDocument(t.answer)
                   /\ Cardinality(RetryNotes(t)) = k - 1
                   /\ FailureNotes(t) = {}

AllErrors(t) == \A j \in 1..Len(t.hist) : t.hist[j] = "error"

CeilDiv(n, c) == (n + c - 1) \div c

NumberedAt(f) ==
    {u \in 2..Len(f) :
        /\ f[u] = "_"
        /\ EndsWith(f, JsonExt)
        /\ Len(f) - Len(JsonExt) > u
        /\ AllDigits(SubSeq(f, u + 1, Len(f) - Len(JsonExt)))}

ClaimedName(f, token) ==
    IF NumberedAt(f) # {}
    THEN <<"p">> \o token \o SubSeq(f, Min(NumberedAt(f)), Len(f))
    ELSE <<"t">> \o token \o <<"_">> \o f

\* C8: with run token T, a file <prefix>_<digits>.json is given the output
\* name pT_<digits>.json and any other file f the name tT_f; every file of
\* the run gets the same T.
C8_OutputNames ==
    \A i \in TaskIds : tasks[i].output = ClaimedName(tasks[i].filename, runAt)

Skipped(f) == \E n \in 1..Len(mainLog) :
                 mainLog[n].msg = "skipping" /\ mainLog[n].file = f

\* C9: in a run that follows a completed run on the same folders, every
\* input whose output the earlier run wrote is skipped: no task, so no
\* request and no write, is made for it.
C9_ResumeIdempotent ==
    (run > 1 /\ prev.ended = "done")
        => \A f \in prev.outputs :
              /\ \A i \in TaskIds : tasks[i].filename # f
              /\ \A j \in 1..idx : json_files[j] = f => Skipped(f)

C9_Witness ==
    /\ run > 1 /\ prev.ended = "done"
    /\ prev.outputs = {NameA1, NameA2}
    /\ prev.runAt # runAt
    /\ mainPc = "done"
    /\ tasks = <<>>
    /\ Skipped(NameA1) /\ Skipped(NameA2)

\* The suffix the guard is said to look for.
ClaimedSuffix(f) ==
    IF NumberedAt(f) # {}
    THEN SubSeq(f, Min(NumberedAt(f)), Len(f))
    ELSE <<"_">> \o f

\* C10: at its turn a file is skipped, with a notification naming it, iff
\* the output folder then holds a name ending with _<id>.json (or with
\* _<filename>); otherwise it is submitted, once.
C10_ResumeGuard ==
    [][Dispatch =>
        LET f == json_files[idx + 1]
            hit == \E g \in DOMAIN outFiles : EndsWith(g, ClaimedSuffix(f))
        IN  IF hit
            THEN /\ tasks' = tasks
                 /\ outFiles' = outFiles
                 /\ Len(mainLog') = Len(mainLog) + 1
                 /\ mainLog'[Len(mainLog')].msg = "skipping"
                 /\ mainLog'[Len(mainLog')].file = f
            ELSE /\ mainLog' = mainLog
                 /\ Len(tasks') = Len(tasks) + 1
                 /\ tasks'[Len(tasks')].filename = f
                 /\ \A i \in TaskIds : tasks[i].filename # f]_vars

\* C11: no two tasks of a run are given the same output path, so no two
\* workers write the same file at the same time.
C11_DistinctOutputs ==
    \A i \in TaskIds : \A j \in TaskIds :
        i # j => tasks[i].output # tasks[j].output

\* Two workers in the course of writing one and the same output file.
C11_NoConcurrentWrite ==
    \A i \in TaskIds : \A j \in TaskIds :
        (i # j /\ tasks[i].pc = "writing" /\ tasks[j].pc = "writing")
            => tasks[i].output # tasks[j].output

Notified(msg) == \E n \in 1..Len(mainLog) : mainLog[n].msg = msg

\* C12: an interruption during dispatch or while waiting is taken at once,
\* whatever the tasks are doing; from then on no file is submitted, no task
\* moves, the completion notification is never emitted, the output folder
\* stays as it is (partial files included) and the exit status is not 0.
C12_Interruption ==
    [][/\ (mainPc = "dispatch" /\ mainPc' = "interrupted")
              => /\ tasks' = tasks /\ outFiles' = outFiles /\ idx' = idx
                 /\ ExitStatus(mainPc') > 0
                 /\ mainLog'[Len(mainLog')].msg = "user_interrupted"
                 /\ \A n \in 1..Len(mainLog') :
                       mainLog'[n].msg # "all_tasks_completed"
       /\ mainPc = "dispatch" => ENABLED Interrupt
       /\ mainPc = "interrupted"
              => /\ outFiles' = outFiles
                 /\ mainPc' = "start" /\ run' = run + 1]_vars

C12_Witness ==
    /\ mainPc = "interrupted"
    /\ idx < Len(json_files)
    /\ ~Notified("all_tasks_completed")
    /\ \E i \in TaskIds :
          /\ tasks[i].pc = "writing"
          /\ outFiles[tasks[i].output] = Truncated

\* The source folder holds no name ending in .json without the hidden-file
\* marker in front.
NoEligibleFile ==
    \A f \in DOMAIN inDir :
        ~EndsWith(f, JsonExt) \/ (Len(f) >= 2 /\ f[1] = "." /\ f[2] = "_")

\* Nothing was done: no task, hence no request, and no file written.
NoWork == tasks = <<>> /\ outFiles = NoFiles

\* C13: without the credential or without the source folder the process
\* exits with a non-zero status, and with no eligible file it exits with
\* status 0; in all three cases no task is submitted, no request is made
\* and no file is written.
C13_ConfigErrorsFatal ==
    /\ (~hasKey \/ ~inDirExists)
          => /\ mainPc \in {"start", "exit1"}
             /\ mainPc = "exit1" => ExitStatus(mainPc) > 0
             /\ NoWork
    /\ (hasKey /\ inDirExists /\ NoEligibleFile)
          => /\ mainPc \in {"start", "exit0"}
             /\ mainPc = "exit0" => ExitStatus(mainPc) = 0
             /\ NoWork

C13_Witness ==
    /\ mainPc = "exit0"
    /\ hasKey /\ inDirExists
    /\ DOMAIN inDir = {NameHidden, NameText}
    /\ Notified("no_json_files")

C13_WitnessNoKey ==
    /\ mainPc = "exit1" /\ ~hasKey /\ inDirExists /\ NameA1 \in DOMAIN inDir
    /\ Notified("no_api_key")

C13_WitnessNoFolder ==
    /\ mainPc = "exit1" /\ hasKey /\ ~inDirExists
    /\ Notified("no_source_folder")

\* A filename and the names it gives with a newline put in front of it,
\* after its first character or after its extension.
NewlineVariants(f) ==
    {f, f \o <<"\n">>, <<"\n">> \o f, <<f[1], "\n">> \o Tail(f)}

\* C14: whatever the run tokens T and T', once the output folder holds the
\* name the codec derives for f under T, the resume guard (which does not
\* depend on T') finds f already translated.
C14_CodecGuardConsistent ==
    /\ \A f \in DOMAIN inDir : \A T \in Tokens :
          OutputName(f, T) \in DOMAIN outFiles => ExistingFiles(f) # {}
    /\ \A f \in DOMAIN inDir : \A g \in NewlineVariants(f) : \A T \in Tokens :
          EndsWith(OutputName(g, T), GuardSuffix(g))

C14_Witness ==
    /\ run = 2 /\ prev.runAt = TokenA /\ runAt = TokenB
    /\ \E f \in DOMAIN inDir :
          /\ OutputName(f, TokenA) \in DOMAIN outFiles
          /\ OutputName(f, TokenB) \notin DOMAIN outFiles
          /\ PatternMatches(f)
          /\ Skipped(f)

\* C15: a run started with the credential, the source folder and an
\* eligible file never aborts, whatever the state of the output folder: the
\* scheduler is dispatching or waiting, or has ended with the completion
\* notification or through the interruption.
C15_NoOtherAbort ==
    (hasKey /\ inDirExists /\ ~NoEligibleFile)
        => mainPc \in {"start", "dispatch", "done", "interrupted"}

\* The task ended in one of the failures: missing, empty, unreadable or
\* malformed input, every attempt rejected, or an exception in the write.
Failed(t) ==
    \/ t.pc = "raised"
    \/ t.pc = "done" /\ (t.ret \in {-1, 0} \/ (t.hist # <<>> /\ t.result = NoneVal))

\* C16: when a file's task has failed, every other file of the run that was
\* not skipped still gets its task, the task runs to its end, and the output
\* file it wrote holds what that task produced.
C16_FailureIsolation ==
    /\ mainPc = "done"
          => \A n \in 1..Len(json_files) :
                \/ Skipped(json_files[n])
                \/ \E i \in TaskIds : /\ tasks[i].filename = json_files[n]
                                      /\ tasks[i].pc \in {"done", "raised"}
    /\ \A i \in TaskIds : \A j \in TaskIds :
          (i # j /\ Failed(tasks[j]) /\ Wrote(tasks[i]))
              => OutputOf(tasks[i]) = tasks[i].translated

\* The same, for tasks that were given distinct output paths.
C16_IsolationDistinctPaths ==
    \A i \in TaskIds : \A j \in TaskIds :
        (i # j /\ Failed(tasks[j]) /\ Wrote(tasks[i])
               /\ tasks[i].output # tasks[j].output)
            => OutputOf(tasks[i]) = tasks[i].translated

Finished(t) == t.pc \in {"done", "raised"}

\* C17: the completion notification is emitted only when the dispatch loop
\* is through and every submitted task has finished (returned or raised);
\* once it is emitted no task makes a request and no file is written.
C17_BlocksUntilComplete ==
    [][/\ Notified("all_tasks_completed")
             => /\ mainPc = "done"
                /\ \A i \in TaskIds : Finished(tasks[i])
       /\ (mainPc = "dispatch" /\ mainPc' = "done")
             => /\ idx = Len(json_files)
                /\ \A i \in TaskIds : Finished(tasks[i])
                /\ tasks' = tasks /\ outFiles' = outFiles
       /\ mainPc = "done"
             => /\ outFiles' = outFiles
                /\ mainPc' = "start" /\ tasks' = <<>>]_vars

C17_Witness ==
    /\ mainPc = "done"
    /\ Notified("all_tasks_completed")
    /\ workerCount = 2
    /\ Len(tasks) = 2
    /\ \A i \in TaskIds : Wrote(tasks[i]) /\ Len(tasks[i].hist) >= 2
    /\ tasks[1].output # tasks[2].output

\* C18: every submitted task finishes, after at most max_retries requests,
\* and a run that is not interrupted emits the completion notification.
C18_BoundedProgress ==
    /\ [](\A i \in TaskIds : Len(tasks[i].sent) <= max_retries)
    /\ \A k \in 1..MaxFiles :
          (k \in TaskIds)
              ~> (mainPc = "interrupted" \/ (k \in TaskIds /\ Finished(tasks[k])))
    /\ (mainPc = "dispatch")
          ~> (mainPc = "interrupted" \/ Notified("all_tasks_completed"))

\* The same, for runs that find the output folder in place.
C18_ProgressWithOutputFolder ==
    /\ [](\A i \in TaskIds : Len(tasks[i].sent) <= max_retries)
    /\ \A k \in 1..MaxFiles :
          (k \in TaskIds)
              ~> (mainPc = "interrupted" \/ (k \in TaskIds /\ Finished(tasks[k])))
    /\ (mainPc = "dispatch" /\ outDirExists)
          ~> (mainPc = "interrupted" \/ Notified("all_tasks_completed"))

\* The content of the task's input file.
InputOf(t) == inDir[t.filename]

\* C19: for an input file whose content is not empty and is not a JSON
\* object (malformed, or an array, string or number), translate_text
\* returns the invalid-input signal (-1), having made no request and
\* written no output file.
C19_NonObjectFailsFast ==
    \A i \in TaskIds :
        LET t == tasks[i]
        IN  (/\ t.pc # "queued"
             /\ InputOf(t) \notin {NoFile, EmptyText}
             /\ InputOf(t).t # "obj")
                => /\ t.pc = "done" /\ t.ret = -1
                   /\ t.sent = <<>>
                   /\ t.output \notin DOMAIN outFiles

\* The same, for content json.loads rejects.
C19_MalformedFailsFast ==
    \A i \in TaskIds :
        LET t == tasks[i]
        IN  (t.pc # "queued" /\ InputOf(t) = Garbage)
                => /\ t.pc = "done" /\ t.ret = -1
                   /\ t.sent = <<>>
                   /\ t.output \notin DOMAIN outFiles

\* C20: when the input path does not exist or the content is empty after
\* trimming, the task makes no request and leaves the output folder as it
\* is (no file, and no folder, is created); a missing file gives the
\* failure signal -1, reported as a failure, and an empty one the signal 0,
\* reported as a success.
C20_InputErrorsNoEffect ==
    [][\A i \in TaskIds :
          (/\ tasks[i].pc = "queued"
           /\ i \in 1..Len(tasks') /\ tasks'[i].pc # "queued"
           /\ InputOf(tasks[i]) \in {NoFile, EmptyText})
              => LET t == tasks'[i]
                 IN  /\ t.pc = "done"
                     /\ t.sent = <<>> /\ t.hist = <<>>
                     /\ outFiles' = outFiles
                     /\ outDirExists' = outDirExists
                     /\ InputOf(t) = NoFile
                           => /\ t.ret = -1
                              /\ t.log[Len(t.log)].msg = "failed"
                     /\ InputOf(t) = EmptyText
                           => /\ t.ret = 0
                              /\ t.log[Len(t.log)].msg = "ok"]_vars

C20_Witness ==
    \E i \in TaskIds :
        /\ tasks[i].pc = "done"
        /\ InputOf(tasks[i]) = EmptyText
        /\ tasks[i].ret = 0
        /\ tasks[i].log[Len(tasks[i].log)].msg = "ok"
        /\ outFiles = NoFiles

C20_WitnessMissing ==
    \E i \in TaskIds :
        /\ tasks[i].pc = "done"
        /\ InputOf(tasks[i]) = NoFile
        /\ tasks[i].ret = -1
        /\ outFiles = NoFiles

\* The names the output folder held when the run began: those no task of
\* the run was given as its output path.
FoundAtStart == DOMAIN outFiles \ {tasks[i].output : i \in TaskIds}

\* C21: what a run skips and what it writes is the same under every worker
\* count and interleaving. A run's choices are independent of the schedule
\* exactly when they are functions of what the run was given: a file is
\* skipped only on account of a name the folder held when the run began,
\* and a file a task has written holds that task's own result.
C21_SchedulingIndependent ==
    /\ \A n \in 1..Len(mainLog) :
          mainLog[n].msg = "skipping"
              => \E g \in FoundAtStart : EndsWith(g, GuardSuffix(mainLog[n].file))
    /\ \A i \in TaskIds :
          Wrote(tasks[i]) => OutputOf(tasks[i]) \in {tasks[i].translated, Truncated}

\* Two schedules of one and the same run: b_1.json skipped, because
\* a_1.json's worker had opened its output, and b_1.json submitted.
C21_ScheduleSkips ==
    /\ run = 1 /\ DOMAIN inDir = {NameA1, NameB1} /\ FoundAtStart = {}
    /\ Skipped(NameB1)

C21_ScheduleSubmits ==
    /\ run = 1 /\ DOMAIN inDir = {NameA1, NameB1} /\ FoundAtStart = {}
    /\ \E i \in TaskIds : tasks[i].filename = NameB1

\* C22: in a run that follows an interrupted one, every input whose output
\* file a worker had opened and not finished is skipped: no task is made
\* for it, and the file it left stays as it is.
C22_PartialBlocksResume ==
    [][(run > 1 /\ prev.ended = "interrupted")
          => \A f \in prev.partial :
                LET g == OutputName(f, prev.runAt)
                IN  /\ \A i \in TaskIds : tasks[i].filename # f
                    /\ \A n \in 1..idx : json_files[n] = f => Skipped(f)
                    /\ g \in DOMAIN outFiles
                    /\ outFiles'[g] = outFiles[g]]_vars

C22_Witness ==
    /\ run = 2 /\ prev.ended = "interrupted"
    /\ prev.partial = {NameA1}
    /\ prev.runAt # runAt
    /\ mainPc = "done"
    /\ Skipped(NameA1)
    /\ outFiles[OutputName(NameA1, prev.runAt)] = Truncated
    /\ \A i \in TaskIds : tasks[i].filename # NameA1

\* C23: the mapping translate_chunk returns is the JSON object of the
\* response as the model sent it, with or without fences around it: the
\* fences are removed and nothing inside the JSON body is changed.
C23_FenceStripping ==
    \A i \in TaskIds :
        (Returned(tasks[i]) /\ tasks[i].result # NoneVal)
            => tasks[i].result = RawDocument(tasks[i].answer)

\* The same, for objects none of whose strings holds three backticks.
C23_FencesAroundOnly ==
    \A i \in TaskIds :
        (/\ Returned(tasks[i]) /\ tasks[i].result # NoneVal
         /\ ReplaceInValue(RawDocument(tasks[i].answer), Ticks)
               = RawDocument(tasks[i].answer))
            => tasks[i].result = RawDocument(tasks[i].answer)

\* A file of the folder the cleanup has nothing against: it parses as JSON
\* and, if it is an object or a list, no top-level string of it holds a CJK
\* ideograph.
Sound(content) ==
    /\ IsJson(content)
    /\ content.t = "obj"
          => \A i \in 1..Len(content.items) :
                content.items[i].v.t = "str" => ~contains_chinese(content.items[i].v.s)
    /\ content.t = "list"
          => \A i \in 1..Len(content.items) :
                content.items[i].t = "str" => ~contains_chinese(content.items[i].s)

Cleaning == cleanLog' # cleanLog

\* C24: when clean_failed_translations returns, every .json file left in
\* the folder is sound; every file that was sound before, and every file
\* that is not .json, is still there unchanged; the deleted count is the
\* number of files removed.
C24_CleanupPostcondition ==
    [][Cleaning =>
          /\ \A f \in DOMAIN outFiles' : EndsWith(f, JsonExt) => Sound(outFiles'[f])
          /\ \A f \in DOMAIN outFiles :
                (~EndsWith(f, JsonExt) \/ Sound(outFiles[f]))
                    => f \in DOMAIN outFiles' /\ outFiles'[f] = outFiles[f]
          /\ \A f \in DOMAIN outFiles' :
                f \in DOMAIN outFiles /\ outFiles'[f] = outFiles[f]
          /\ cleanLog'.count = Cardinality(DOMAIN outFiles \ DOMAIN outFiles')]_vars

\* The same, a file whose reading raised being left out of the first part.
C24_PostconditionForReadFiles ==
    [][Cleaning =>
          /\ \A f \in DOMAIN outFiles' \ cleanLog'.errors :
                EndsWith(f, JsonExt) => Sound(outFiles'[f])
          /\ \A f \in DOMAIN outFiles :
                (~EndsWith(f, JsonExt) \/ Sound(outFiles[f]))
                    => f \in DOMAIN outFiles' /\ outFiles'[f] = outFiles[f]
          /\ \A f \in DOMAIN outFiles' :
                f \in DOMAIN outFiles /\ outFiles'[f] = outFiles[f]
          /\ cleanLog'.count = Cardinality(DOMAIN outFiles \ DOMAIN outFiles')]_vars

\* C25: in a run that follows a completed run and a cleanup of the output
\* folder, an input whose output the earlier run wrote is submitted when
\* the cleanup deleted that output and is skipped when the output survived.
C25_RetryAfterCleanup ==
    (run > 1 /\ prev.ended = "done" /\ cleanLog.run = run - 1)
        => \A n \in 1..idx :
              LET f == json_files[n]
                  g == OutputName(f, prev.runAt)
              IN  f \in prev.outputs
                     => IF g \in cleanLog.deleted
                        THEN \E i \in TaskIds : tasks[i].filename = f
                        ELSE /\ Skipped(f)
                             /\ \A i \in TaskIds : tasks[i].filename # f

\* The same, for source folders in which no output name ends with the
\* suffix the guard looks for on behalf of another input.
C25_RetryWithoutSharedSuffix ==
    (\A f1 \in DOMAIN inDir : \A f2 \in DOMAIN inDir : \A T \in Tokens :
        f1 # f2 => ~EndsWith(OutputName(f1, T), GuardSuffix(f2)))
        => C25_RetryAfterCleanup

\* An output of the fallback path makes the next run skip its input as
\* long as no cleanup has run.
C25_FallbackSkippedBeforeCleanup ==
    (run > 1 /\ prev.ended = "done" /\ cleanLog = NotCleaned)
        => \A n \in 1..idx :
              json_files[n] \in prev.outputs
                 => /\ Skipped(json_files[n])
                    /\ \A i \in TaskIds : tasks[i].filename # json_files[n]

CompletionLine(n) ==
    \E m \in 1..Len(mainLog) : mainLog[m].msg = "completed" /\ mainLog[m].n = n

AttemptLine(n) ==
    \E m \in 1..Len(mainLog) : mainLog[m].msg = "translating" /\ mainLog[m].n = n

\* C26: the sequential runner attempts every .json file of its listing in
\* the listing's order, and whatever a file comes to (missing, empty,
\* network error, streaming error, success) the loop goes on to the next
\* file, having reported a completion line for this one.
C26_SequentialRunnerGoesOn ==
    /\ inDirExists => mainPc # "crashed"
    /\ \A n \in 1..idx :
          EndsWith(json_files[n], JsonExt) => AttemptLine(n) /\ CompletionLine(n)
    /\ \A m1 \in 1..Len(mainLog) : \A m2 \in 1..Len(mainLog) :
          (m1 < m2 /\ mainLog[m1].msg = "translating" /\ mainLog[m2].msg = "translating")
              => mainLog[m1].n < mainLog[m2].n
    /\ mainPc = "done" => idx = Len(json_files)

\* The same, for source folders whose .json files all exist, can be read
\* and are not empty.
C26_GoesOnAfterRequestErrors ==
    (\A f \in DOMAIN inDir :
        EndsWith(f, JsonExt) => inDir[f] \notin {NoFile, EmptyText, Unreadable})
        => C26_SequentialRunnerGoesOn
====
